---- MODULE Spec2Model ----
(***************************************************************************)
(* A model of the resolver boilerplate: the resolver registry              *)
(* (api/resolvers-provider.js), the discovery of resolver classes          *)
(* (registerResolvers), the authRequired decorator and the single POST     *)
(* route that dispatches a request to a resolver (api/api-route.js).       *)
(***************************************************************************)
EXTENDS Naturals, Sequences, FiniteSets, TLC

(***************************************************************************)
(* Bounds of the model.                                                    *)
(***************************************************************************)
MaxRequests == 2

(***************************************************************************)
(* JavaScript values.  Every value is a record tagged by t, so that === is *)
(* equality of records: a string never equals undefined.                   *)
(***************************************************************************)
Undefined == [t |-> "undefined"]
Null == [t |-> "null"]
\* A string is the sequence of the pieces that make it up: one piece for a
\* literal, several for a template literal with a name spliced in.
Template(pieces) == [t |-> "string", v |-> pieces]
Str(s) == Template(<<s>>)
Num(n) == [t |-> "number", v |-> n]
Array(items) == [t |-> "array", items |-> items]
\* new Error(message); a TypeError the engine raises is one too.
Err(m) == [t |-> "Error", message |-> m]
Instance(file) == [t |-> "instance", of |-> file]
NoGate == [t |-> "nogate"]

\* A function value: the logic it runs, the label of the authRequired wrapper
\* around it (NoGate: not decorated) and the receiver bind() fixed for it.
Fn(logic, gate, receiver) ==
    [t |-> "function", logic |-> logic, gate |-> gate, this |-> receiver]

\* What a call ends with.
Return(v) == [kind |-> "return", value |-> v]
Throw(e) == [kind |-> "throw", value |-> e]

\* if (v) ...: undefined, null and the empty string are falsy.
Truthy(v) == ~(v.t \in {"undefined", "null"} \/ v = Str(""))

(***************************************************************************)
(* The registry object.  `const __registeredResolvers = {}` is a plain     *)
(* object: a read of a key it does not own goes to Object.prototype.       *)
(***************************************************************************)
ObjectPrototype ==
    [toString |-> [t |-> "builtin", name |-> "Object.prototype.toString"],
     constructor |-> [t |-> "builtin", name |-> "Object"],
     __proto__ |-> [t |-> "object", name |-> "Object.prototype"]]

InheritedNames == DOMAIN ObjectPrototype

EmptyObject == [k \in {} |-> Undefined]

\* obj[key]
PropGet(obj, key) ==
    IF key \in DOMAIN obj THEN obj[key]
    ELSE IF key \in InheritedNames THEN ObjectPrototype[key]
    ELSE Undefined

\* obj[key] = value, for a key other than __proto__ (registerResolver never
\* gets to assign __proto__: the read before it yields Object.prototype).
PropSet(obj, key, value) ==
    [k \in DOMAIN obj \cup {key} |-> IF k = key THEN value ELSE obj[k]]

AlreadyExists(name) ==
    Err(Template(<<"Resolver with ", name, " name already exists">>))
NotRegistered(name) ==
    Err(Template(<<"Resolver with ", name, " wasn't registered">>))

\* registerResolver without its check.
RegisterGuardMissing(reg, resolverName) == FALSE

\* if (__registeredResolvers[resolverName])
RegisterGuard(reg, resolverName) == Truthy(PropGet(reg, resolverName))

\* registerResolver that replaces the resolver a name already has.
registerResolverOverwriting(reg, resolverName, resolver) ==
    [completion |-> Return(Undefined),
     reg |-> PropSet(reg, resolverName, resolver)]

\* registerResolver: the completion and the registry after the call.
registerResolver(reg, resolverName, resolver) ==
    IF RegisterGuard(reg, resolverName)
    THEN [completion |-> Throw(AlreadyExists(resolverName)), reg |-> reg]
    ELSE [completion |-> Return(Undefined),
          reg |-> PropSet(reg, resolverName, resolver)]

\* getResolver
getResolver(reg, resolverName) ==
    LET resolver == PropGet(reg, resolverName)
    IN  IF ~Truthy(resolver) THEN Throw(NotRegistered(resolverName))
        ELSE Return(resolver)

\* getResolver that records a miss in the registry.
RegistryAfterLookupCachingMisses(reg, resolverName) ==
    IF Truthy(PropGet(reg, resolverName)) THEN reg
    ELSE PropSet(reg, resolverName, Undefined)

\* The registry after getResolver: the function assigns nothing.
RegistryAfterLookup(reg, resolverName) == reg

(***************************************************************************)
(* Resolvers.  The logic of a resolver is user code; these are the bodies  *)
(* the model draws from: the repository's getUsersByName, and bodies that  *)
(* count, fail in the ways a body can fail (one of them with the message   *)
(* the route looks for), or never finish.                                  *)
(***************************************************************************)
allUsers ==
    << [id |-> 1, name |-> Str("Anatoly"), age |-> 42],
       [id |-> 2, name |-> Str("Yulia"), age |-> 34],
       [id |-> 3, name |-> Str("John"), age |-> 55] >>

\* A promise the logic returns: rejected with a failure, or never settled.
Reject(e) == [kind |-> "reject", value |-> e]
Pending == [kind |-> "pending", value |-> Undefined]

\* getUsersByName without its filter.
getUsersByNameUnfiltered(ctx) == Return(Array(allUsers))

\* getUsersByName({body}): allUsers.filter(user => user.name === name)
getUsersByName(ctx) ==
    LET name == ctx.body.name
    IN  Return(Array(SelectSeq(allUsers, LAMBDA user : user.name = name)))

\* The completion of the body `logic` run with receiver `receiver` on `ctx`,
\* `count` being the module-level counter before the call.
RunLogic(logic, receiver, ctx, count) ==
    CASE logic = "getUsersByName" -> getUsersByName(ctx)
      [] logic = "count" -> Return(Num(count + 1))
      [] logic = "boom" -> Throw(Err(Str("boom")))
      [] logic = "denied" -> Throw(Err(Str("Unauthenticated")))
      [] logic = "throwNull" -> Throw(Null)
      [] logic = "rejectUndefined" -> Reject(Undefined)
      [] logic = "hang" -> Pending

\* The counter after the body ran.
CountAfter(logic, count) == IF logic = "count" THEN count + 1 ELSE count

(***************************************************************************)
(* authRequired(userType): the wrapper it puts around a method.            *)
(***************************************************************************)
Unauthenticated == Err(Str("Unauthenticated"))

\* The comparison made after lower-casing both sides.
LowerCase(v) == IF v = Str("Admin") THEN Str("admin") ELSE v
GateRejectsIgnoringCase(userType, authorizedUser) ==
    LowerCase(authorizedUser) # LowerCase(userType)

\* if (authorizedUser !== userType) throw new Error("Unauthenticated")
GateRejects(userType, authorizedUser) == authorizedUser # userType

\* A gate shared by every element of the class, decorated or not.
authRequiredShared(userType, kind) == Str("admin")

\* What authRequired(userType) makes of a class element of `kind`: the label
\* of the wrapper, or NoGate when it returns undefined and the element stays.
authRequired(userType, kind) ==
    IF kind \in {"method", "getter", "setter"} THEN userType ELSE NoGate

(***************************************************************************)
(* resolver({body, authorizedUser}): the call the route makes.  The result *)
(* holds the completion, whether a function was entered, the body that ran *)
(* (if one did) and the counter after the call.                            *)
(***************************************************************************)
NotCallable == Err(Str("resolver is not a function"))
NoLogic == "none"

\* What a call made of no body: the wrapper threw first, or a built-in ran.
NoCompletion == [kind |-> "none", value |-> Undefined]

\* A wrapper that calls the method and forgets to return what it returned.
WrapperReturnDropped(ret) == IF ret.kind = "return" THEN Return(Undefined) ELSE ret

\* const ret = value.call(this, ...args); return ret;
WrapperReturn(ret) == ret

Call(f, ctx, count) ==
    CASE f.t = "builtin" /\ f.name = "Object.prototype.toString" ->
            \* toString with an undefined receiver
            [completion |-> Return(Str("[object Undefined]")),
             invoked |-> TRUE, ran |-> NoLogic, passed |-> ctx,
             underlying |-> NoCompletion, count |-> count]
      [] f.t = "builtin" /\ f.name = "Object" ->
            \* Object(ctx) returns its argument
            [completion |-> Return(ctx),
             invoked |-> TRUE, ran |-> NoLogic, passed |-> ctx,
             underlying |-> NoCompletion, count |-> count]
      [] f.t = "function" /\ f.gate # NoGate
                /\ GateRejects(f.gate, ctx.authorizedUser) ->
            [completion |-> Throw(Unauthenticated),
             invoked |-> TRUE, ran |-> NoLogic, passed |-> ctx,
             underlying |-> NoCompletion, count |-> count]
      [] f.t = "function" /\ (f.gate = NoGate
                \/ ~GateRejects(f.gate, ctx.authorizedUser)) ->
            LET ret == RunLogic(f.logic, f.this, ctx, count)
            IN  [completion |-> IF f.gate = NoGate THEN ret
                                ELSE WrapperReturn(ret),
                 invoked |-> TRUE, ran |-> f.logic, passed |-> ctx,
                 underlying |-> ret, count |-> CountAfter(f.logic, count)]
      [] OTHER ->
            [completion |-> Throw(NotCallable),
             invoked |-> FALSE, ran |-> NoLogic, passed |-> ctx,
             underlying |-> NoCompletion, count |-> count]

(***************************************************************************)
(* The source tree registerResolvers scans.  A path is the sequence of its *)
(* pieces, the last one its ending.  A module is what import() makes of a  *)
(* file: it fails to load, or it has exports, among them maybe a default   *)
(* class whose prototype lists its elements in definition order.           *)
(***************************************************************************)
Path(stem, ending) == <<stem, ending>>

RouteFile == Path("api-route", ".js")
UsersFile == Path("users/users", "-resolvers.js")
StatsFile == Path("stats/stats", "-resolvers.js")
FaultyFile == Path("faulty/faulty", "-resolvers.js")
AccountsFile == Path("accounts/accounts", "-resolvers.js")
LegacyFile == Path("legacy/legacy", "-resolvers.js")
BrokenFile == Path("broken/broken", "-resolvers.js")
TextFile == Path("text/text", "-resolvers.js")

Element(name, logic, decorator) ==
    [name |-> name, kind |-> "method", logic |-> logic, decorator |-> decorator]
Constructor == Element("constructor", "constructor", NoGate)
Class(elements) == [t |-> "class", prototype |-> <<Constructor>> \o elements]
Module(loads, default, named) ==
    [loads |-> loads, default |-> default, named |-> named]

\* class UsersResolvers { @authRequired("admin") getUsersByName ... }
UsersResolvers ==
    Class(<< Element("getUsersByName", "getUsersByName", Str("admin")) >>)

Modules ==
    (RouteFile :> Module(TRUE, Undefined, <<>>))
    @@ (UsersFile :> Module(TRUE, UsersResolvers, <<>>))
    @@ (StatsFile :> Module(TRUE,
            Class(<< Element("count", "count", NoGate),
                     Element("secureCount", "count", Str("admin")),
                     Element("secureBoom", "boom", Str("admin")) >>), <<>>))
    @@ (FaultyFile :> Module(TRUE,
            Class(<< Element("boom", "boom", NoGate),
                     Element("denied", "denied", NoGate),
                     Element("throwNull", "throwNull", NoGate),
                     Element("rejectUndefined", "rejectUndefined", NoGate),
                     Element("hang", "hang", NoGate) >>), <<>>))
    @@ (AccountsFile :> Module(TRUE,
            Class(<< Element("getAccounts", "count", NoGate),
                     Element("getUsersByName", "getUsersByName", NoGate) >>),
            <<>>))
    @@ (LegacyFile :> Module(TRUE, Undefined,
            << Element("ping", "count", NoGate) >>))
    @@ (BrokenFile :> Module(FALSE, Undefined, <<>>))
    @@ (TextFile :> Module(TRUE,
            Class(<< Element("toString", "count", NoGate) >>), <<>>))

\* The trees the model starts from.
Directories ==
    { {RouteFile},
      {RouteFile, UsersFile},
      {RouteFile, UsersFile, StatsFile},
      {RouteFile, UsersFile, FaultyFile},
      {RouteFile, UsersFile, AccountsFile, StatsFile},
      {RouteFile, UsersFile, LegacyFile},
      {RouteFile, UsersFile, BrokenFile},
      {RouteFile, StatsFile, TextFile} }

\* file.endsWith('-resolvers.js')
EndsWithResolvers(file) == file[Len(file)] = "-resolvers.js"

\* files.filter(file => file.endsWith('-resolvers.js'))
ResolverFiles(dir) == {file \in dir : EndsWithResolvers(file)}

\* Object.getOwnPropertyNames(module.default.prototype)
OwnPropertyNames(class) == [i \in 1..Len(class.prototype) |-> class.prototype[i].name]

\* instance[key] of an instance of `class`: it has no own fields, so the read
\* goes to the prototype's elements (decorated as the class was defined) and
\* then to Object.prototype.
InstanceGet(class, key) ==
    LET found == {i \in 1..Len(class.prototype) : class.prototype[i].name = key}
    IN  IF found # {}
        THEN LET e == class.prototype[CHOOSE i \in found : TRUE]
             IN  Fn(e.logic, authRequired(e.decorator, e.kind), Undefined)
        ELSE IF key \in InheritedNames THEN ObjectPrototype[key]
        ELSE Undefined

\* resolver.bind(receiver)
Bind(resolver, receiver) == [resolver EXCEPT !.this = receiver]

\* instantiatedResolver.self
BoundReceiver(class, file) == InstanceGet(class, "self")

\* The forEach over the prototype's names from position i on: the registry
\* after it and its completion; a registerResolver that throws ends it.
RECURSIVE RegisterMembers(_, _, _, _)
RegisterMembers(reg, class, file, i) ==
    IF i > Len(class.prototype) THEN [completion |-> Return(Undefined), reg |-> reg]
    ELSE LET key == OwnPropertyNames(class)[i]
         IN  IF key = "constructor" THEN RegisterMembers(reg, class, file, i + 1)
             ELSE LET resolver == InstanceGet(class, key)
                      r == registerResolver(reg, key,
                               Bind(resolver, BoundReceiver(class, file)))
                  IN  IF r.completion.kind = "throw" THEN r
                      ELSE RegisterMembers(r.reg, class, file, i + 1)

NotAConstructor == Err(Str("module.default is not a constructor"))
CannotLoad == Err(Str("cannot load module"))

\* One turn of the for loop of registerResolvers (the version that instantiates
\* the default class of each file) on `file`: the completion,
\* the registry after it and whether the class was instantiated.
LoadResolverFile(reg, file) ==
    LET module == Modules[file]
    IN  IF ~module.loads
        THEN [completion |-> Throw(CannotLoad), reg |-> reg, instantiated |-> FALSE]
        ELSE IF module.default = Undefined
        THEN [completion |-> Throw(NotAConstructor), reg |-> reg,
              instantiated |-> FALSE]
        ELSE LET r == RegisterMembers(reg, module.default, file, 1)
             IN  [completion |-> r.completion, reg |-> r.reg,
                  instantiated |-> TRUE]

(***************************************************************************)
(* The route: router.post('*', async (req, res, next) => { ... }).         *)
(***************************************************************************)
\* req.url is "/" followed by the rest of the path; substring(1) drops the "/".
Url(name) == <<"/", name>>
Substring1(url) == url[2]

Context(body, authorizedUser) ==
    [t |-> "object", body |-> body, authorizedUser |-> authorizedUser]

NoResponse == [status |-> 0, body |-> [type |-> "none", value |-> Undefined]]
\* res.json(result): status 200 unless set, the value serialised as JSON.
Json(result) == [status |-> 200, body |-> [type |-> "json", value |-> result]]
\* res.status(code); res.send(text)
Send(code, text) == [status |-> code, body |-> [type |-> "text", value |-> text]]

\* err.message of a value that is neither null nor undefined.
MessageOf(err) == IF err.t = "Error" THEN err.message ELSE Undefined

\* The catch block, entered with the thrown value: reading err.message of
\* null or undefined throws inside the block, and the failure leaves the
\* async function as a rejected promise nobody handles.
Catch(err) ==
    IF err.t \in {"null", "undefined"}
    THEN [state |-> "uncaught", response |-> NoResponse]
    ELSE IF MessageOf(err) = Str("Unauthenticated")
    THEN [state |-> "responded", response |-> Send(401, MessageOf(err))]
    ELSE [state |-> "responded", response |-> Send(500, Str("Server error"))]

(***************************************************************************)
(* The inputs of a request.                                                *)
(***************************************************************************)
RequestNames ==
    {"getUsersByName", "count", "secureCount", "secureBoom", "boom", "denied",
     "throwNull", "rejectUndefined", "hang", "doesNotExist"}
    \cup InheritedNames
Bodies == {[t |-> "object", name |-> Str("Anatoly")],
           [t |-> "object", name |-> Str("Nobody")]}
\* req.header('Authorization'): the header's value, or undefined without it.
Authorizations == {Str("admin"), Str("Admin"), Undefined}
\* The requests the model sends: every name with every Authorization, and
\* every body for the one resolver that reads its body.
RequestInputs ==
    {in \in [name : RequestNames, body : Bodies, authorization : Authorizations] :
        in.name # "getUsersByName" => in.body.name = Str("Anatoly")}

\* The resolvers the registry's own callers hand it.
Handlers == {Fn("getUsersByName", NoGate, Undefined), Fn("count", NoGate, Undefined)}
RegistryNames == {"getUsersByName", "count", "ping"} \cup InheritedNames

(***************************************************************************)
(* State.                                                                  *)
(***************************************************************************)
VARIABLES
    directory,    \* the files under the api directory
    pc,           \* where module evaluation stands: start, loading, done, failed
    pending,      \* the resolver files the for loop has not reached yet
    __registeredResolvers,   \* the registry object's own properties
    instances,    \* the files whose class was instantiated, in order
    failure,      \* the value registerResolvers failed with
    listening,    \* app.listen was called
    requests,     \* the requests received, in order of arrival
    calls,        \* the calls the route made, in order
    counter,      \* the module-level counter the counting bodies increment
    lastCall,     \* the last direct call of registerResolver or getResolver
    accepted      \* name -> resolver of the registerResolver calls that returned

vars == <<directory, pc, pending, __registeredResolvers, instances, failure, listening,
          requests, calls, counter, lastCall, accepted>>

NoCall == [op |-> "none", name |-> "", resolver |-> Undefined,
           completion |-> Return(Undefined), before |-> {}]

Init ==
    /\ directory \in Directories
    /\ pc = "start"
    /\ pending = {}
    /\ __registeredResolvers = EmptyObject
    /\ instances = <<>>
    /\ failure = Undefined
    /\ listening = FALSE
    /\ requests = <<>>
    /\ calls = <<>>
    /\ counter = 0
    /\ lastCall = NoCall
    /\ accepted = EmptyObject

(***************************************************************************)
(* Startup: api-route.js awaits registerResolvers(__dirname) at its top    *)
(* level, and app.js, which imports it, runs only after that.              *)
(***************************************************************************)
\* glob.sync and the filter, up to the first await.
StartDiscovery ==
    /\ pc = "start"
    /\ pc' = "loading"
    /\ pending' = ResolverFiles(directory)
    /\ UNCHANGED <<directory, __registeredResolvers, instances, failure, listening,
                   requests, calls, counter, lastCall, accepted>>

\* A loop that catches the failure of a file and goes on to the next.
LoopAfterSkipping(completion) == "loading"

\* Where the loop stands after a turn: nothing in registerResolvers catches,
\* so a turn that throws ends the function with that failure.
LoopAfter(completion) ==
    IF completion.kind = "throw" THEN "failed" ELSE "loading"

\* One turn of the loop, on the file the traversal reaches next.
LoadUnit(file) ==
    /\ pc = "loading"
    /\ file \in pending
    /\ LET r == LoadResolverFile(__registeredResolvers, file)
       IN  /\ __registeredResolvers' = r.reg
           /\ instances' = IF r.instantiated THEN Append(instances, file)
                            ELSE instances
           /\ pc' = LoopAfter(r.completion)
           /\ failure' = IF r.completion.kind = "throw"
                          THEN r.completion.value ELSE failure
           /\ pending' = IF LoopAfter(r.completion) = "failed" THEN pending
                          ELSE pending \ {file}
    /\ UNCHANGED <<directory, listening, requests, calls, counter, lastCall,
                   accepted>>

\* The loop is over: registerResolvers resolves and api-route.js is evaluated.
FinishDiscovery ==
    /\ pc = "loading"
    /\ pending = {}
    /\ pc' = "done"
    /\ UNCHANGED <<directory, pending, __registeredResolvers, instances, failure,
                   listening, requests, calls, counter, lastCall, accepted>>

\* registerResolvers called without await: api-route.js is evaluated as soon
\* as the call reaches its first suspension.
ModuleEvaluatedWithoutAwait == pc # "start"

\* app.js runs once the modules it imports are evaluated.
ModuleEvaluated == pc = "done"

\* app.listen(port)
Listen ==
    /\ ModuleEvaluated
    /\ ~listening
    /\ listening' = TRUE
    /\ UNCHANGED <<directory, pc, pending, __registeredResolvers, instances, failure,
                   requests, calls, counter, lastCall, accepted>>

(***************************************************************************)
(* Serving.                                                                *)
(***************************************************************************)
Request(url, body, authorization, state, awaited, response) ==
    [url |-> url, body |-> body, authorization |-> authorization,
     state |-> state, awaited |-> awaited, response |-> response]

\* The route's handler from its start to its first await, or to its end when
\* it does not get that far.
Dispatch(url, body, authorization) ==
    /\ listening
    /\ Len(requests) < MaxRequests
    /\ LET authorizedUser == authorization
           resolverName == Substring1(url)
           got == getResolver(__registeredResolvers, resolverName)
           ctx == Context(body, authorizedUser)
       IN  /\ __registeredResolvers' =
                    RegistryAfterLookup(__registeredResolvers, resolverName)
           /\ IF got.kind = "throw"
              THEN LET c == Catch(got.value)
                   IN  /\ requests' = Append(requests,
                               Request(url, body, authorization, c.state,
                                       got, c.response))
                       /\ UNCHANGED <<calls, counter>>
              ELSE LET r == Call(got.value, ctx, counter)
                       c == Catch(r.completion.value)
                   IN  /\ counter' = r.count
                       /\ calls' = IF r.invoked
                                   THEN Append(calls,
                                           [request |-> Len(requests) + 1,
                                            callee |-> got.value,
                                            ctx |-> r.passed, ran |-> r.ran,
                                            underlying |-> r.underlying])
                                   ELSE calls
                       /\ requests' = Append(requests,
                               IF r.completion.kind = "throw"
                               THEN Request(url, body, authorization, c.state,
                                            r.completion, c.response)
                               ELSE Request(url, body, authorization,
                                            "awaiting", r.completion,
                                            NoResponse))
    /\ UNCHANGED <<directory, pc, pending, instances, failure, listening,
                   lastCall, accepted>>

\* The await is over: the handler goes on with the value, or to its catch
\* block with the rejection.  A promise that never settles never gets here.
Resume(i) ==
    /\ i \in 1..Len(requests)
    /\ requests[i].state = "awaiting"
    /\ requests[i].awaited.kind \in {"return", "reject"}
    /\ LET a == requests[i].awaited
           c == Catch(a.value)
       IN  requests' = [requests EXCEPT ![i] =
               IF a.kind = "return"
               THEN [@ EXCEPT !.state = "responded", !.response = Json(a.value)]
               ELSE [@ EXCEPT !.state = c.state, !.response = c.response]]
    /\ UNCHANGED <<directory, pc, pending, __registeredResolvers, instances, failure,
                   listening, calls, counter, lastCall, accepted>>

Next ==
    \/ StartDiscovery
    \/ \E file \in DOMAIN Modules : LoadUnit(file)
    \/ FinishDiscovery
    \/ Listen
    \/ \E in \in RequestInputs :
            Dispatch(Url(in.name), in.body, in.authorization)
    \/ \E i \in 1..MaxRequests : Resume(i)

Spec == Init /\ [][Next]_vars

(***************************************************************************)
(* The registry on its own: registerResolver and getResolver are exported, *)
(* and this specification calls them in any order on any name.             *)
(***************************************************************************)
\* The record of the calls that returned: the first resolver a name got.
Recorded(acc, name, resolver) ==
    IF name \in DOMAIN acc THEN acc
    ELSE [k \in DOMAIN acc \cup {name} |-> IF k = name THEN resolver ELSE acc[k]]

RegistryInit ==
    /\ directory = {}
    /\ pc = "start"
    /\ pending = {}
    /\ __registeredResolvers = EmptyObject
    /\ instances = <<>>
    /\ failure = Undefined
    /\ listening = FALSE
    /\ requests = <<>>
    /\ calls = <<>>
    /\ counter = 0
    /\ lastCall = NoCall
    /\ accepted = EmptyObject

RegisterCall(name, resolver) ==
    /\ LET r == registerResolver(__registeredResolvers, name, resolver)
       IN  /\ __registeredResolvers' = r.reg
           /\ lastCall' = [op |-> "register", name |-> name,
                           resolver |-> resolver, completion |-> r.completion,
                           before |-> DOMAIN accepted]
           /\ accepted' = IF r.completion.kind = "return"
                           THEN Recorded(accepted, name, resolver)
                           ELSE accepted
    /\ UNCHANGED <<directory, pc, pending, instances, failure, listening,
                   requests, calls, counter>>

LookupCall(name) ==
    /\ lastCall' = [op |-> "lookup", name |-> name, resolver |-> Undefined,
                    completion |-> getResolver(__registeredResolvers, name),
                    before |-> DOMAIN accepted]
    /\ __registeredResolvers' = RegistryAfterLookup(__registeredResolvers, name)
    /\ UNCHANGED <<directory, pc, pending, instances, failure, listening,
                   requests, calls, counter, accepted>>

RegistryNext ==
    \/ \E name \in RegistryNames, resolver \in Handlers :
            RegisterCall(name, resolver)
    \/ \E name \in RegistryNames : LookupCall(name)

RegistrySpec == RegistryInit /\ [][RegistryNext]_vars

(***************************************************************************)
(* C1.  A lookup of a name that no successful register call was given      *)
(* fails with the "wasn't registered" error, and a lookup of a registered  *)
(* name returns exactly the resolver registered under it; for every name,  *)
(* those that every plain object already has included.                     *)
(***************************************************************************)
C1_LookupContract ==
    lastCall.op = "lookup" =>
        IF lastCall.name \in DOMAIN accepted
        THEN lastCall.completion = Return(accepted[lastCall.name])
        ELSE lastCall.completion = Throw(NotRegistered(lastCall.name))

(***************************************************************************)
(* C2.  A register call fails, with the "already exists" error, exactly    *)
(* when an earlier register call on the same name succeeded, whatever the  *)
(* resolver passed: from an empty registry, distinct names all register.   *)
(***************************************************************************)
C2_RegisterContract ==
    lastCall.op = "register" =>
        IF lastCall.name \in lastCall.before
        THEN lastCall.completion = Throw(AlreadyExists(lastCall.name))
        ELSE lastCall.completion = Return(Undefined)

(***************************************************************************)
(* What the formulas below read off a state.                               *)
(***************************************************************************)
Received == 1..Len(requests)
NameOf(i) == Substring1(requests[i].url)
\* The route called a function for request i; the body of a resolver ran.
Called(i) == \E j \in 1..Len(calls) : calls[j].request = i
Ran(i) == \E j \in 1..Len(calls) : calls[j].request = i /\ calls[j].ran # NoLogic
\* Request i names a resolver that was registered behind an authRequired.
Gated(i) ==
    /\ NameOf(i) \in DOMAIN __registeredResolvers
    /\ __registeredResolvers[NameOf(i)].gate # NoGate
\* The names a resolver file contributes.
MemberNames(file) ==
    IF Modules[file].default = Undefined THEN {}
    ELSE {Modules[file].default.prototype[k].name :
            k \in 2..Len(Modules[file].default.prototype)}
\* The names two resolver files of the tree both contribute.
DuplicateNames(dir) ==
    {n \in UNION {MemberNames(f) : f \in ResolverFiles(dir)} :
        \E f, g \in ResolverFiles(dir) :
            f # g /\ n \in MemberNames(f) /\ n \in MemberNames(g)}
\* The users of the fixed set with the given name, in the set's order.
UsersNamed(x) ==
    IF x = Str("Anatoly") THEN << [id |-> 1, name |-> Str("Anatoly"), age |-> 42] >>
    ELSE IF x = Str("Yulia") THEN << [id |-> 2, name |-> Str("Yulia"), age |-> 34] >>
    ELSE IF x = Str("John") THEN << [id |-> 3, name |-> Str("John"), age |-> 55] >>
    ELSE << >>

(***************************************************************************)
(* C3.  A request to a resolver behind authRequired(L), made with caller   *)
(* identity c: the resolver's body runs if and only if c is L itself (no   *)
(* change of case, an absent identity is not L); any other c gets the      *)
(* Unauthenticated failure, answered 401, and the body's counter does not  *)
(* move: it counts exactly the bodies that ran.                            *)
(***************************************************************************)
C3_GateShortCircuits ==
    /\ \A i \in Received : Gated(i) =>
            LET L == __registeredResolvers[NameOf(i)].gate
                c == requests[i].authorization
            IN  /\ Ran(i) <=> c = L
                /\ c # L =>
                      /\ requests[i].awaited = Throw(Err(Str("Unauthenticated")))
                      /\ requests[i].state = "responded"
                      /\ requests[i].response.status = 401
    /\ counter = Cardinality({j \in 1..Len(calls) : calls[j].ran = "count"})

C3_Witness ==
    \E i, j \in Received :
        /\ NameOf(i) = "secureCount" /\ Gated(i)
        /\ requests[i].authorization = Str("Admin")
        /\ requests[i].response.status = 401
        /\ NameOf(j) = "secureCount"
        /\ requests[j].authorization = Str("admin")
        /\ requests[j].response.status = 200
        /\ counter = 1

(***************************************************************************)
(* C4.  A request whose name no resolver was registered under is answered  *)
(* 500 "Server error", and the route calls no function for it.             *)
(***************************************************************************)
C4_UnknownNameIs500 ==
    \A i \in Received : NameOf(i) \notin DOMAIN __registeredResolvers =>
        /\ requests[i].response = Send(500, Str("Server error"))
        /\ ~Called(i)

(***************************************************************************)
(* C5.  No failure raised while a request is dispatched leaves the route's *)
(* handler uncaught: whatever was thrown, the request is answered.         *)
(***************************************************************************)
C5_NoFailureEscapes ==
    \A i \in Received : requests[i].state # "uncaught"

(***************************************************************************)
(* C6.  A request that failed with a failure carrying the message          *)
(* "Unauthenticated" is answered 401 with that message, one that failed    *)
(* with any other failure is answered 500 "Server error", and one whose    *)
(* resolver returned is answered 200 with the returned value as the body.  *)
(***************************************************************************)
C6_StatusMapping ==
    \A i \in Received : requests[i].state # "awaiting" =>
        LET a == requests[i].awaited
        IN  IF a.kind = "return" THEN requests[i].response = Json(a.value)
            ELSE IF a.value.t = "Error" /\ a.value.message = Str("Unauthenticated")
            THEN requests[i].response = Send(401, Str("Unauthenticated"))
            ELSE requests[i].response = Send(500, Str("Server error"))

(***************************************************************************)
(* C7.  The server listens, and so a request is dispatched, only after     *)
(* discovery has run to completion: the registry a dispatch reads holds    *)
(* every resolver of every resolver file of the tree.                      *)
(***************************************************************************)
C7_DiscoveryBeforeServing ==
    (listening \/ requests # <<>>) =>
        /\ pc = "done"
        /\ pending = {}
        /\ \A f \in ResolverFiles(directory) :
                MemberNames(f) \subseteq DOMAIN __registeredResolvers

C7_Witness ==
    /\ requests # <<>>
    /\ Cardinality(ResolverFiles(directory)) >= 2
    /\ Len(instances) >= 2

(***************************************************************************)
(* C8.  When discovery is over, the class of every resolver file has been  *)
(* instantiated exactly once and every element of its prototype but the    *)
(* constructor is registered under its name, bound to that instance.       *)
(***************************************************************************)
C8_BoundToTheInstance ==
    pc = "done" =>
        \A f \in ResolverFiles(directory) :
            /\ Cardinality({k \in 1..Len(instances) : instances[k] = f}) = 1
            /\ "constructor" \notin DOMAIN __registeredResolvers
            /\ \A n \in MemberNames(f) :
                    /\ n \in DOMAIN __registeredResolvers
                    /\ __registeredResolvers[n].this = Instance(f)

(***************************************************************************)
(* C9.  When two resolver files contribute the same name, discovery fails  *)
(* with the "already exists" error in every traversal order and nothing is *)
(* ever served; when none do, a discovery that completes leaves the same   *)
(* registry in every traversal order: each contributed name mapped to its  *)
(* file's resolver.                                                        *)
(***************************************************************************)
ExpectedRegistry(dir) ==
    [n \in UNION {MemberNames(f) : f \in ResolverFiles(dir)} |->
        LET f == CHOOSE g \in ResolverFiles(dir) : n \in MemberNames(g)
            class == Modules[f].default
        IN  Bind(InstanceGet(class, n), BoundReceiver(class, f))]

C9_DuplicatesFatalAnyOrder ==
    /\ DuplicateNames(directory) # {} =>
            /\ pc # "done"
            /\ ~(pc = "loading" /\ pending = {})
            /\ ~listening
            /\ requests = <<>>
            /\ pc = "failed" =>
                  failure \in {AlreadyExists(n) : n \in DuplicateNames(directory)}
    /\ (DuplicateNames(directory) = {} /\ pc = "done") =>
            __registeredResolvers = ExpectedRegistry(directory)

C9_Witness ==
    /\ pc = "failed"
    /\ failure = AlreadyExists("getUsersByName")
    /\ Len(instances) = 3

(***************************************************************************)
(* C10.  With users-resolvers.js discovered, a request for getUsersByName  *)
(* with Authorization "admin" and body {name: x} is answered 200 with      *)
(* exactly the users of the fixed set named x; with any other              *)
(* Authorization, or none, it is answered 401 "Unauthenticated".           *)
(***************************************************************************)
C10_GetUsersByNameEndToEnd ==
    \A i \in Received :
        (UsersFile \in directory /\ NameOf(i) = "getUsersByName") =>
            IF requests[i].authorization = Str("admin")
            THEN /\ requests[i].state \in {"awaiting", "responded"}
                 /\ requests[i].state = "responded" =>
                        requests[i].response =
                            Json(Array(UsersNamed(requests[i].body.name)))
            ELSE /\ requests[i].state = "responded"
                 /\ requests[i].response = Send(401, Str("Unauthenticated"))

C10_Witness ==
    \E i, j \in Received :
        /\ NameOf(i) = "getUsersByName"
        /\ requests[i].authorization = Str("admin")
        /\ requests[i].body.name = Str("Anatoly")
        /\ requests[i].response.status = 200
        /\ Len(requests[i].response.body.value.items) = 1
        /\ NameOf(j) = "getUsersByName"
        /\ requests[j].authorization = Undefined
        /\ requests[j].response.status = 401

(***************************************************************************)
(* C11.  Once discovery has completed, no step changes the registry:       *)
(* whatever requests are dispatched (answered 200, 401 or 500, or left     *)
(* unanswered), the mapping stays the one discovery left, and the lookup a *)
(* dispatch makes changes nothing.                                         *)
(***************************************************************************)
C11_RegistryFrozenWhileServing ==
    [][pc = "done" => __registeredResolvers' = __registeredResolvers]_vars

C11_Witness ==
    \E i, j \in Received :
        /\ NameOf(i) = "doesNotExist"
        /\ requests[i].response.status = 500
        /\ NameOf(j) = "getUsersByName"
        /\ requests[j].response.status = 401
        /\ DOMAIN __registeredResolvers = {"getUsersByName"}

(***************************************************************************)
(* C12.  Once discovery has failed, on a file that does not load or on a   *)
(* registration that throws, nothing further happens: no later file is     *)
(* loaded or registered, the server never listens and no request is ever   *)
(* served.                                                                 *)
(***************************************************************************)
C12_DiscoveryFailureIsFatal ==
    /\ [](failure # Undefined =>
            /\ pc = "failed"
            /\ ~listening
            /\ requests = <<>>
            /\ Cardinality({f \in pending :
                    \E k \in 1..Len(instances) : instances[k] = f}) <= 1)
    /\ [][failure = Undefined]_vars

C12_Witness ==
    /\ pc = "failed"
    /\ failure = AlreadyExists("getUsersByName")
    /\ StatsFile \in pending
    /\ "count" \notin DOMAIN __registeredResolvers
    /\ ~listening

(***************************************************************************)
(* C13.  A resolver file that loads and has no default class is            *)
(* discovered without failure, and once the loop has passed it every one   *)
(* of its named exports is registered under its export name.               *)
(***************************************************************************)
C13_NamedExportsRegistered ==
    \A f \in ResolverFiles(directory) :
        (Modules[f].loads /\ Modules[f].default = Undefined) =>
            /\ failure # NotAConstructor
            /\ (pc \in {"loading", "done"} /\ f \notin pending) =>
                    \A k \in 1..Len(Modules[f].named) :
                        Modules[f].named[k].name \in DOMAIN __registeredResolvers

(***************************************************************************)
(* C14.  A registered resolver never changes: a lookup of a name returns   *)
(* the resolver of the first register call on it that succeeded, no step   *)
(* removes or replaces an entry, and a register call that fails leaves the *)
(* whole mapping as it was.                                                *)
(***************************************************************************)
C14_ImmutableOnceRegistered ==
    /\ [](lastCall.op = "lookup" /\ lastCall.name \in DOMAIN accepted =>
            lastCall.completion = Return(accepted[lastCall.name]))
    /\ [][/\ \A n \in DOMAIN __registeredResolvers :
                /\ n \in DOMAIN __registeredResolvers'
                /\ __registeredResolvers'[n] = __registeredResolvers[n]
          /\ (lastCall'.op = "register" /\ lastCall'.completion.kind = "throw")
                => __registeredResolvers' = __registeredResolvers]_vars

C14_Witness ==
    /\ lastCall.op = "register"
    /\ lastCall.completion.kind = "throw"
    /\ lastCall.name \in DOMAIN accepted
    /\ lastCall.resolver # accepted[lastCall.name]
    /\ __registeredResolvers[lastCall.name] = accepted[lastCall.name]
    /\ Cardinality(DOMAIN __registeredResolvers) >= 2

(***************************************************************************)
(* C15.  A request to a resolver behind authRequired(L) made with identity *)
(* L: the route's call runs the resolver's body exactly once, on the       *)
(* request's own context (its body, its identity), and what the call ends  *)
(* with is what the body ended with: its value, or its failure.            *)
(***************************************************************************)
CallsOf(i) == {j \in 1..Len(calls) : calls[j].request = i}

C15_GatePassesThrough ==
    \A i \in Received :
        (Gated(i) /\ requests[i].authorization
                        = __registeredResolvers[NameOf(i)].gate) =>
            /\ Cardinality(CallsOf(i)) = 1
            /\ \A j \in CallsOf(i) :
                    /\ calls[j].ran = __registeredResolvers[NameOf(i)].logic
                    /\ calls[j].ctx = Context(requests[i].body,
                                              requests[i].authorization)
                    /\ requests[i].awaited = calls[j].underlying
            /\ NameOf(i) = "secureBoom" =>
                    requests[i].awaited = Throw(Err(Str("boom")))

C15_Witness ==
    \E i, j \in Received :
        /\ NameOf(i) = "secureBoom"
        /\ requests[i].authorization = Str("admin")
        /\ requests[i].response.status = 500
        /\ NameOf(j) = "secureCount"
        /\ requests[j].authorization = Str("admin")
        /\ requests[j].response = Json(Num(1))

(***************************************************************************)
(* C16.  A request to a resolver whose method carries no authRequired runs *)
(* the resolver's body whatever the caller identity, an absent one         *)
(* included, on the request's own context, and ends as the body ends: the  *)
(* gates on other resolvers of the tree change nothing for it.             *)
(***************************************************************************)
UndecoratedNames(dir) ==
    {n \in UNION {MemberNames(f) : f \in ResolverFiles(dir)} :
        \E f \in ResolverFiles(dir) :
            \E k \in 2..Len(Modules[f].default.prototype) :
                /\ Modules[f].default.prototype[k].name = n
                /\ Modules[f].default.prototype[k].decorator = NoGate}

C16_GatingIsPerHandler ==
    \A i \in Received :
        (pc = "done" /\ NameOf(i) \in UndecoratedNames(directory)) =>
            /\ Cardinality(CallsOf(i)) = 1
            /\ \A j \in CallsOf(i) :
                    /\ calls[j].ran # NoLogic
                    /\ calls[j].ctx = Context(requests[i].body,
                                              requests[i].authorization)
                    /\ requests[i].awaited = calls[j].underlying

C16_Witness ==
    \E i, j \in Received :
        /\ NameOf(i) = "count"
        /\ requests[i].authorization = Undefined
        /\ requests[i].response.status = 200
        /\ NameOf(j) = "secureCount"
        /\ requests[j].authorization = Undefined
        /\ requests[j].response.status = 401

(***************************************************************************)
(* C17.  While the resolver of one request never finishes, no other        *)
(* request is held up: a request whose resolver has finished has its       *)
(* response or can take the step that produces it, and two answered        *)
(* requests with the same path, body and identity (to a resolver that      *)
(* reads no shared counter) have the same response.                        *)
(***************************************************************************)
Finished(j) == requests[j].awaited.kind \in {"return", "throw", "reject"}

C17_HungRequestBlocksNobody ==
    \A i, j \in Received :
        (i # j /\ requests[i].awaited.kind = "pending") =>
            /\ requests[i].state = "awaiting"
            /\ Finished(j) =>
                    \/ requests[j].state = "responded"
                    \/ requests[j].state = "awaiting" /\ ENABLED Resume(j)
            /\ \A k \in Received :
                    (/\ requests[j].state = "responded"
                     /\ requests[k].state = "responded"
                     /\ requests[j].url = requests[k].url
                     /\ requests[j].body = requests[k].body
                     /\ requests[j].authorization = requests[k].authorization
                     /\ \A c \in CallsOf(j) : calls[c].ran # "count")
                        => requests[j].response = requests[k].response

(***************************************************************************)
(* C18.  A request is answered 401 only when an authRequired wrapper       *)
(* rejected its caller: never when the resolver has no gate, nor when the  *)
(* identity is the gate's label, whatever the resolver's body throws.      *)
(***************************************************************************)
C18_Only401FromGate ==
    \A i \in Received :
        requests[i].response.status = 401 =>
            /\ Gated(i)
            /\ requests[i].authorization # __registeredResolvers[NameOf(i)].gate

====
